---- MODULE Spec2Model ----
(***************************************************************************)
(* Search orchestration of app/services/search_service.py: SearchService   *)
(* with its four search modes.  One request is in flight; every call to a  *)
(* collaborator (embedding model, vector store, reranker) is a message in  *)
(* flight (pending) that the collaborator answers with a value or an       *)
(* exception.                                                              *)
(***************************************************************************)
EXTENDS Integers, Sequences, FiniteSets, TLC

\* ------------------------------------------------------------------ bounds
\* Longest list a collaborator returns in the model (it never returns more
\* than the k it was asked for either).
MaxLen == 2

\* ------------------------------------------------------- program constants
ExpandFactor == 3
MinExpandedK == 30

MASTER_INDEX == "master"
PIPELINE_NAME == "hybrid-search-pipeline"

\* -------------------------------------------------------------- input sets
Modes == {"vector", "keyword", "hybrid_native", "hybrid_reranked"}
Queries == {"", "alpha"}
TopKs == {0, 1, 5, 10, 11, 20}
Errors == {"ConnectionError", "TimeoutError"}

\* Scores are exact rationals <<numerator, denominator>>, denominator > 0.
Score(n) == <<n, 1>>

\* doc_id is a string, kept as its sequence of characters.
SearchResult(id, chunk, s, p) ==
    [doc_id |-> id, chunk_index |-> chunk, score |-> Score(s), payload |-> p]

\* The records the index can return.  Two of them are the same chunk of the
\* same document with different scores (the vector and the BM25 instance);
\* one document id contains the separator and a digit; scores are positive,
\* zero and negative.
Docs ==
    { SearchResult(<<"d">>, 0, 2, "vec"),
      SearchResult(<<"d">>, 0, 1, "bm25"),
      SearchResult(<<"d", "_", "0">>, 0, 0, "vec"),
      SearchResult(<<"d">>, 10, -1, "bm25") }

Min(a, b) == IF a <= b THEN a ELSE b

\* Every list of at most Min(k, MaxLen) records.
ListsUpTo(k) == UNION { [1..n -> Docs] : n \in 0..Min(k, MaxLen) }

\* ------------------------------------------------------------ pure helpers
\* Python's max(a, b) on integers.
PyMax(a, b) == IF b > a THEN b ELSE a

\* Variant: the floor of 30 candidates forgotten.
ExpandedK_NoFloor(top_k) == top_k * ExpandFactor

\* expanded_k = max(request.top_k * 3, 30)
ExpandedK(top_k) == PyMax(top_k * ExpandFactor, MinExpandedK)

Digit(n) == <<"0", "1", "2", "3", "4", "5", "6", "7", "8", "9">>[n + 1]

RECURSIVE IntToStr(_)
\* str(n) of an integer, as the f-string formats it.
IntToStr(n) ==
    IF n < 0 THEN <<"-">> \o IntToStr(-n)
    ELSE IF n < 10 THEN <<Digit(n)>>
    ELSE IntToStr(n \div 10) \o <<Digit(n % 10)>>

\* Variant: the key built from the document id alone.
DocKey_DocIdOnly(doc) == doc.doc_id

\* doc_key = f"{doc.metadata.doc_id}_{doc.metadata.chunk_index}"
DocKey(doc) == doc.doc_id \o <<"_">> \o IntToStr(doc.chunk_index)

RECURSIVE MergeLoop(_, _, _)
\* One "for doc in ...:" loop of the merge: docs still to visit, the
\* combined_docs built so far and the doc_ids_chunks set.
MergeLoop(docs, combined, seen) ==
    IF docs = <<>> THEN [combined_docs |-> combined, doc_ids_chunks |-> seen]
    ELSE LET doc == Head(docs)
             doc_key == DocKey(doc)
         IN IF doc_key \in seen
            THEN MergeLoop(Tail(docs), combined, seen)
            ELSE MergeLoop(Tail(docs), Append(combined, doc), seen \cup {doc_key})

\* Variant: the BM25 loop starts from an empty doc_ids_chunks set.
CombineDocs_SeparateSeen(vec, bm25) ==
    MergeLoop(bm25, MergeLoop(vec, <<>>, {}).combined_docs, {}).combined_docs

\* Steps 3, 3.1 and 3.2 of hybrid_search_reranked.
CombineDocs(vec, bm25) ==
    LET afterVec == MergeLoop(vec, <<>>, {})
    IN MergeLoop(bm25, afterVec.combined_docs, afterVec.doc_ids_chunks).combined_docs

\* ---- rational arithmetic of the score normalisation
RECURSIVE Gcd(_, _)
Gcd(a, b) == IF b = 0 THEN a ELSE Gcd(b, a % b)

Abs(n) == IF n < 0 THEN -n ELSE n

Reduce(n, d) ==
    LET g == Gcd(Abs(n), d) IN <<n \div g, d \div g>>

\* a / b for b > 0
Div(a, b) == Reduce(a[1] * b[2], a[2] * b[1])

Less(a, b) == a[1] * b[2] < b[1] * a[2]

RECURSIVE MaxFrom(_, _)
\* Python's max over a list: the running maximum, replaced only by a
\* strictly larger element.
MaxFrom(best, rest) ==
    IF rest = <<>> THEN best
    ELSE MaxFrom(IF Less(best, Head(rest)) THEN Head(rest) ELSE best, Tail(rest))

\* max([result.score for result in results]), results non-empty
MaxScore(results) == MaxFrom(results[1].score, Tail([i \in 1..Len(results) |-> results[i].score]))

\* a / b for b # 0
DivSigned(a, b) ==
    IF b[1] < 0 THEN Reduce(-(a[1] * b[2]), a[2] * (-b[1])) ELSE Div(a, b)

\* Variant: the guard is "max_score != 0" instead of "max_score > 0".
Normalize_NonZeroGuard(results) ==
    IF results # <<>>
    THEN LET max_score == MaxScore(results)
         IN IF max_score[1] # 0
            THEN [i \in 1..Len(results) |->
                     [results[i] EXCEPT !.score = DivSigned(results[i].score, max_score)]]
            ELSE results
    ELSE results

\* The normalisation of keyword_search.
Normalize(results) ==
    IF results # <<>>
    THEN LET max_score == MaxScore(results)
         IN IF Less(Score(0), max_score)
            THEN [i \in 1..Len(results) |->
                     [results[i] EXCEPT !.score = Div(results[i].score, max_score)]]
            ELSE results
    ELSE results

\* Number of divisions the normalisation performs.
Divisions(results) ==
    IF results # <<>> /\ Less(Score(0), MaxScore(results)) THEN Len(results) ELSE 0

\* _to_response
ToResponse(results) == [results |-> results]

\* embed_query is a function of the query.
EmbedQuery(query) == <<"vec", query>>

\* ------------------------------------------------------------------- state
VARIABLES
    request,        \* the SearchRequest being served
    pc,             \* position of the handler
    pending,        \* the collaborator call in flight
    calls,          \* the collaborator calls made for the request, in order
    expanded_k, query_vec, vector_results, bm25_results, combined_docs,  \* locals
    returned,       \* what the last collaborator call returned
    raised,         \* the call that raised and its exception
    divisions,      \* divisions performed by the normalisation
    traced,         \* the except block printed the traceback
    outcome,        \* "none", "rejected", "response" or "error"
    response,       \* the SearchResponse returned
    error           \* the exception raised to the caller

vars == <<request, pc, pending, calls, expanded_k, query_vec, vector_results, bm25_results,
          combined_docs, returned, raised, divisions, traced, outcome, response, error>>

\* A collaborator call: the function and its arguments (those a function
\* does not take are left at their defaults).
CallOf(fn, query, vec, pipeline, k, candidates) ==
    [fn |-> fn, query |-> query, query_vector |-> vec,
     index_name |-> IF fn \in {"embed_query", "rerank_results", "none"} THEN "" ELSE MASTER_INDEX,
     pipeline_name |-> pipeline, k |-> k, candidates |-> candidates]

NoCall == CallOf("none", "", <<>>, "", 0, <<>>)
NoVec == <<>>
NoRaise == [fn |-> "none", error |-> "none"]
NoRequest == [mode |-> "none", query |-> "", top_k |-> 0]

Init ==
    /\ request = NoRequest
    /\ pc = "idle"
    /\ pending = NoCall
    /\ calls = <<>>
    /\ expanded_k = 0
    /\ query_vec = NoVec
    /\ vector_results = <<>>
    /\ bm25_results = <<>>
    /\ combined_docs = <<>>
    /\ returned = <<>>
    /\ raised = NoRaise
    /\ divisions = 0
    /\ traced = FALSE
    /\ outcome = "none"
    /\ response = ToResponse(<<>>)
    /\ error = "none"

locals == <<expanded_k, query_vec, vector_results, bm25_results, combined_docs>>
result == <<outcome, response, error, traced, divisions>>

\* The handler issues a collaborator call.
Call(c) ==
    /\ pending' = c
    /\ calls' = Append(calls, c)

\* The handler ends (return or raise): nothing is in flight any more and
\* its local variables are gone.
Ended ==
    /\ pc' = "done"
    /\ pending' = NoCall
    /\ calls' = calls
    /\ expanded_k' = 0
    /\ query_vec' = NoVec
    /\ vector_results' = <<>>
    /\ bm25_results' = <<>>
    /\ combined_docs' = <<>>

\* The pending call raises e and the handler lets it reach its caller.
Raise(e) ==
    /\ raised' = [fn |-> pending.fn, error |-> e]
    /\ outcome' = "error"
    /\ error' = e
    /\ Ended
    /\ UNCHANGED <<request, returned, divisions, response>>

\* The handler returns SearchResponse(results=results).
Return(results) ==
    /\ outcome' = "response"
    /\ response' = ToResponse(results)
    /\ Ended
    /\ UNCHANGED <<request, raised, error, traced>>

\* ------------------------------------------------------ request validation
\* Variant: top_k is not validated.
ValidRequest_QueryOnly(query, top_k) == query # ""

\* SearchRequest: query non-empty, top_k positive.
ValidRequest(query, top_k) == query # "" /\ top_k > 0

\* A request arrives; an invalid one is rejected as a client-input error.
Receive(mode, query, top_k) ==
    /\ pc = "idle"
    /\ request' = [mode |-> mode, query |-> query, top_k |-> top_k]
    /\ IF ValidRequest(query, top_k)
       THEN /\ pc' = "accepted"
            /\ outcome' = outcome
       ELSE /\ pc' = "done"
            /\ outcome' = "rejected"
    /\ UNCHANGED <<pending, calls, locals, returned, raised, divisions, traced,
                   response, error>>

\* ------------------------------------------------------------ vector_search
vector_search_begin ==
    /\ pc = "accepted" /\ request.mode = "vector"
    /\ Call(CallOf("embed_query", request.query, <<>>, "", 0, <<>>))
    /\ pc' = "vs13"
    /\ UNCHANGED <<request, locals, returned, raised, result>>

vector_search_embedded ==
    /\ pc = "vs13"
    /\ query_vec' = EmbedQuery(pending.query)
    /\ Call(CallOf("similarity_search", "", query_vec', "", request.top_k, <<>>))
    /\ pc' = "vs14"
    /\ UNCHANGED <<request, expanded_k, vector_results, bm25_results, combined_docs,
                   returned, raised, result>>

vector_search_searched ==
    /\ pc = "vs14"
    /\ \E results \in ListsUpTo(pending.k) :
          /\ returned' = results
          /\ Return(results)
    /\ UNCHANGED divisions

\* No try block: the exception of either call leaves the handler as it is.
vector_search_raises ==
    /\ pc \in {"vs13", "vs14"}
    /\ \E e \in Errors : Raise(e)
    /\ UNCHANGED traced

\* ----------------------------------------------------------- keyword_search
keyword_search_begin ==
    /\ pc = "accepted" /\ request.mode = "keyword"
    /\ Call(CallOf("bm25_search", request.query, <<>>, "", request.top_k, <<>>))
    /\ pc' = "ks23"
    /\ UNCHANGED <<request, locals, returned, raised, result>>

keyword_search_searched ==
    /\ pc = "ks23"
    /\ \E results \in ListsUpTo(pending.k) :
          /\ returned' = results
          /\ divisions' = Divisions(results)
          /\ Return(Normalize(results))

keyword_search_raises ==
    /\ pc = "ks23"
    /\ \E e \in Errors : Raise(e)
    /\ UNCHANGED traced

\* ----------------------------------------------------- hybrid_search_native
hybrid_search_native_begin ==
    /\ pc = "accepted" /\ request.mode = "hybrid_native"
    /\ Call(CallOf("embed_query", request.query, <<>>, "", 0, <<>>))
    /\ pc' = "hn43"
    /\ UNCHANGED <<request, locals, returned, raised, result>>

hybrid_search_native_embedded ==
    /\ pc = "hn43"
    /\ query_vec' = EmbedQuery(pending.query)
    /\ Call(CallOf("hybrid_search_with_pipeline", request.query, query_vec',
                   PIPELINE_NAME, request.top_k, <<>>))
    /\ pc' = "hn46"
    /\ UNCHANGED <<request, expanded_k, vector_results, bm25_results, combined_docs,
                   returned, raised, result>>

hybrid_search_native_searched ==
    /\ pc = "hn46"
    /\ \E results \in ListsUpTo(pending.k) :
          /\ returned' = results
          /\ Return(results)
    /\ UNCHANGED divisions

\* except Exception: print the traceback, then a bare raise.
hybrid_search_native_raises ==
    /\ pc \in {"hn43", "hn46"}
    /\ traced' = TRUE
    /\ \E e \in Errors : Raise(e)

\* --------------------------------------------------- hybrid_search_reranked
hybrid_search_reranked_begin ==
    /\ pc = "accepted" /\ request.mode = "hybrid_reranked"
    /\ expanded_k' = ExpandedK(request.top_k)
    /\ Call(CallOf("embed_query", request.query, <<>>, "", 0, <<>>))
    /\ pc' = "hr82"
    /\ UNCHANGED <<request, query_vec, vector_results, bm25_results, combined_docs,
                   returned, raised, result>>

hybrid_search_reranked_embedded ==
    /\ pc = "hr82"
    /\ query_vec' = EmbedQuery(pending.query)
    /\ Call(CallOf("similarity_search", "", query_vec', "", expanded_k, <<>>))
    /\ pc' = "hr83"
    /\ UNCHANGED <<request, expanded_k, vector_results, bm25_results, combined_docs,
                   returned, raised, result>>

hybrid_search_reranked_vector_searched ==
    /\ pc = "hr83"
    /\ \E results \in ListsUpTo(pending.k) :
          /\ returned' = results
          /\ vector_results' = results
    /\ Call(CallOf("bm25_search", request.query, <<>>, "", expanded_k, <<>>))
    /\ pc' = "hr89"
    /\ UNCHANGED <<request, expanded_k, query_vec, bm25_results, combined_docs,
                   raised, result>>

\* Variant: no early return for an empty merge.
hybrid_search_reranked_bm25_searched_NoEmptyCheck ==
    /\ pc = "hr89"
    /\ \E results \in ListsUpTo(pending.k) :
          /\ returned' = results
          /\ bm25_results' = results
          /\ combined_docs' = CombineDocs(vector_results, results)
          /\ Call(CallOf("rerank_results", request.query, <<>>, "", request.top_k,
                         combined_docs'))
    /\ pc' = "hr125"
    /\ UNCHANGED <<request, expanded_k, query_vec, vector_results, raised, result>>

\* Variant: the reranker is asked for expanded_k instead of top_k.
hybrid_search_reranked_bm25_searched_ExpandedK ==
    /\ pc = "hr89"
    /\ \E results \in ListsUpTo(pending.k) :
          /\ returned' = results
          /\ LET combined == CombineDocs(vector_results, results)
             IN IF combined = <<>>
                THEN /\ Return(<<>>)
                     /\ UNCHANGED divisions
                ELSE /\ bm25_results' = results
                     /\ combined_docs' = combined
                     /\ Call(CallOf("rerank_results", request.query, <<>>, "",
                                    expanded_k, combined))
                     /\ pc' = "hr125"
                     /\ UNCHANGED <<request, expanded_k, query_vec, vector_results,
                                    raised, result>>

\* BM25 results arrive; the two lists are merged; an empty merge returns at
\* once, any other is handed to the reranker.
hybrid_search_reranked_bm25_searched ==
    /\ pc = "hr89"
    /\ \E results \in ListsUpTo(pending.k) :
          /\ returned' = results
          /\ LET combined == CombineDocs(vector_results, results)
             IN IF combined = <<>>
                THEN /\ Return(<<>>)
                     /\ UNCHANGED divisions
                ELSE /\ bm25_results' = results
                     /\ combined_docs' = combined
                     /\ Call(CallOf("rerank_results", request.query, <<>>, "",
                                    request.top_k, combined))
                     /\ pc' = "hr125"
                     /\ UNCHANGED <<request, expanded_k, query_vec, vector_results,
                                    raised, result>>

\* Variant: the reranked scores are normalised like the keyword scores.
hybrid_search_reranked_reranked_Normalized ==
    /\ pc = "hr125"
    /\ \E reranked_docs \in ListsUpTo(pending.k) :
          /\ returned' = reranked_docs
          /\ Return(Normalize(reranked_docs))
    /\ UNCHANGED divisions

hybrid_search_reranked_reranked ==
    /\ pc = "hr125"
    /\ \E reranked_docs \in ListsUpTo(pending.k) :
          /\ returned' = reranked_docs
          /\ Return(reranked_docs)
    /\ UNCHANGED divisions

\* Variant: the except block falls back to the vector results.
hybrid_search_reranked_raises_Fallback ==
    /\ pc \in {"hr82", "hr83", "hr89", "hr125"}
    /\ traced' = TRUE
    /\ \E e \in Errors : raised' = [fn |-> pending.fn, error |-> e]
    /\ outcome' = "response"
    /\ response' = ToResponse(vector_results)
    /\ Ended
    /\ UNCHANGED <<request, returned, divisions, error>>

\* except Exception: print the traceback, then a bare raise.
hybrid_search_reranked_raises ==
    /\ pc \in {"hr82", "hr83", "hr89", "hr125"}
    /\ traced' = TRUE
    /\ \E e \in Errors : Raise(e)

Next ==
    \/ \E mode \in Modes, query \in Queries, top_k \in TopKs : Receive(mode, query, top_k)
    \/ vector_search_begin
    \/ vector_search_embedded
    \/ vector_search_searched
    \/ vector_search_raises
    \/ keyword_search_begin
    \/ keyword_search_searched
    \/ keyword_search_raises
    \/ hybrid_search_native_begin
    \/ hybrid_search_native_embedded
    \/ hybrid_search_native_searched
    \/ hybrid_search_native_raises
    \/ hybrid_search_reranked_begin
    \/ hybrid_search_reranked_embedded
    \/ hybrid_search_reranked_vector_searched
    \/ hybrid_search_reranked_bm25_searched
    \/ hybrid_search_reranked_reranked
    \/ hybrid_search_reranked_raises

Spec == Init /\ [][Next]_vars

\* ================================================================ properties
\* The identity key of the data model: the pair (doc_id, chunk_index).
IdentityKey(doc) == <<doc.doc_id, doc.chunk_index>>

Keys(list) == { IdentityKey(list[i]) : i \in DOMAIN list }

NoDuplicates(list) ==
    \A i, j \in DOMAIN list : i # j => IdentityKey(list[i]) # IdentityKey(list[j])

\* The items of list whose identity key occurs neither in the set of keys
\* excluded nor earlier in list, in the order of list.
RECURSIVE FirstSeen(_, _)
FirstSeen(list, excluded) ==
    IF list = <<>> THEN <<>>
    ELSE IF IdentityKey(Head(list)) \in excluded
         THEN FirstSeen(Tail(list), excluded)
         ELSE <<Head(list)>> \o FirstSeen(Tail(list), excluded \cup {IdentityKey(Head(list))})

CallsTo(fn) == Cardinality({ i \in DOMAIN calls : calls[i].fn = fn })

Responded == outcome = "response"

\* value of a score as a comparison with an integer n
ScoreLeq(s, n) == s[1] <= n * s[2]
ScoreGeq(s, n) == s[1] >= n * s[2]
ScoreEq(s, n) == s[1] = n * s[2]

\* ---------------------------------------------------------------------- C1
\* C1 as stated: in every mode and for every list the collaborators return,
\* the response holds no two items with the same (doc_id, chunk_index).
C1_NoDuplicatesInAnyResponse ==
    Responded => NoDuplicates(response.results)

\* C1 amended: a response is free of duplicate (doc_id, chunk_index) pairs
\* whenever the list returned by the mode's last collaborator call is, and
\* the candidate list handed to the reranker is always free of them.
C1_NoDuplicatesAddedOrHandedToReranker ==
    /\ Responded => (NoDuplicates(returned) => NoDuplicates(response.results))
    /\ pending.fn = "rerank_results" => NoDuplicates(pending.candidates)

\* The reranker is being called although the same chunk came from both
\* searches.
C1_Witness ==
    /\ pending.fn = "rerank_results"
    /\ Keys(vector_results) \cap Keys(bm25_results) # {}

\* ---------------------------------------------------------------------- C2
\* C2 as stated: keyword_search, BM25 list non-empty with a strictly
\* positive raw score: every response score lies in [0, 1] and the largest
\* response score is 1.
C2_KeywordScoresInUnitInterval ==
    ( /\ Responded /\ request.mode = "keyword"
      /\ \E i \in DOMAIN returned : ~ScoreLeq(returned[i].score, 0) )
    => /\ \A i \in DOMAIN response.results :
            /\ ScoreGeq(response.results[i].score, 0)
            /\ ScoreLeq(response.results[i].score, 1)
       /\ \E i \in DOMAIN response.results : ScoreEq(response.results[i].score, 1)

\* ---------------------------------------------------------------------- C3
\* C3: the candidate list handed to the reranker is the vector results with
\* repeated identity keys removed, followed by the BM25 results whose key
\* was not seen before; it has one item per distinct key of the two lists
\* and a key of the vector list keeps its first vector instance.
C3_MergedCandidates ==
    pending.fn = "rerank_results" =>
        LET firstVec == FirstSeen(vector_results, {})
            cands == pending.candidates
        IN /\ cands = firstVec \o FirstSeen(bm25_results, Keys(vector_results))
           /\ NoDuplicates(cands)
           /\ Keys(cands) = Keys(vector_results) \cup Keys(bm25_results)
           /\ \A i \in DOMAIN cands :
                 IdentityKey(cands[i]) \in Keys(vector_results) =>
                     \E j \in DOMAIN vector_results :
                        /\ cands[i] = vector_results[j]
                        /\ \A h \in 1..(j - 1) :
                              IdentityKey(vector_results[h]) # IdentityKey(cands[i])

\* The same chunk came from both searches, with different score and payload.
C3_Witness ==
    /\ pending.fn = "rerank_results"
    /\ \E i \in DOMAIN vector_results, j \in DOMAIN bm25_results :
          /\ IdentityKey(vector_results[i]) = IdentityKey(bm25_results[j])
          /\ vector_results[i].score # bm25_results[j].score
          /\ vector_results[i].payload # bm25_results[j].payload
    /\ Len(pending.candidates) >= 2

\* ---------------------------------------------------------------------- C4
\* C4: when the vector search returned nothing and the BM25 search returns
\* nothing, the handler returns an empty response and does not call the
\* reranker.
C4_EmptyMergeSkipsReranker ==
    [][ (pc = "hr89" /\ vector_results = <<>> /\ returned' = <<>> /\ raised' = raised)
        => /\ outcome' = "response"
           /\ response'.results = <<>>
           /\ pc' = "done"
           /\ pending'.fn = "none"
           /\ calls' = calls
           /\ CallsTo("rerank_results") = 0 ]_vars

\* hybrid_search_reranked has answered after three calls, without a fourth.
C4_Witness ==
    /\ request.mode = "hybrid_reranked"
    /\ Responded
    /\ Len(calls) = 3
    /\ response.results = <<>>

\* ---------------------------------------------------------------------- C5
\* C5: a non-empty merge is handed to the reranker once, with the request's
\* query, the whole merged list and the request's top_k, and the response is
\* the reranker's output as it came.
C5_RerankerCallAndOutput ==
    /\ pc = "hr125" =>
          /\ pending.fn = "rerank_results"
          /\ pending.query = request.query
          /\ pending.candidates = combined_docs
          /\ combined_docs # <<>>
          /\ Keys(combined_docs) = Keys(vector_results) \cup Keys(bm25_results)
          /\ pending.k = request.top_k
          /\ CallsTo("rerank_results") = 1
    /\ (Responded /\ CallsTo("rerank_results") > 0) =>
          /\ CallsTo("rerank_results") = 1
          /\ calls[Len(calls)].fn = "rerank_results"
          /\ response.results = returned

\* The reranker was given more candidates than top_k, in an order other than
\* the one it returned, and its output is the response.
C5_Witness ==
    /\ Responded
    /\ CallsTo("rerank_results") = 1
    /\ Len(calls[Len(calls)].candidates) > request.top_k
    /\ response.results # <<>>
    /\ response.results[1] # calls[Len(calls)].candidates[1]

\* ---------------------------------------------------------------------- C6
\* C6: hybrid_search_reranked asks both searches for the same
\* k = max(top_k * 3, 30): 30 for top_k = 5, 60 for top_k = 20.
C6_ExpandedK ==
    request.mode = "hybrid_reranked" =>
        \A i \in DOMAIN calls :
            calls[i].fn \in {"similarity_search", "bm25_search"} =>
                /\ calls[i].k >= 30
                /\ calls[i].k >= 3 * request.top_k
                /\ calls[i].k = 30 \/ calls[i].k = 3 * request.top_k
                /\ request.top_k = 5 => calls[i].k = 30
                /\ request.top_k = 20 => calls[i].k = 60

\* Both searches were made for top_k = 20.
C6_Witness ==
    /\ request.mode = "hybrid_reranked"
    /\ request.top_k = 20
    /\ CallsTo("similarity_search") = 1
    /\ CallsTo("bm25_search") = 1
    /\ calls[Len(calls)].k = 60

\* ---------------------------------------------------------------------- C7
\* C7: in the two hybrid modes an exception of a collaborator call reaches
\* the caller as it is, with no response, no later call and no repeated
\* call.
C7_ErrorPropagates ==
    request.mode \in {"hybrid_native", "hybrid_reranked"} =>
        /\ raised.fn # "none" =>
              /\ outcome = "error"
              /\ error = raised.error
              /\ response = ToResponse(<<>>)
              /\ pc = "done"
              /\ pending.fn = "none"
              /\ calls # <<>>
              /\ calls[Len(calls)].fn = raised.fn
        /\ outcome = "error" => raised.fn # "none"
        /\ \A i, j \in DOMAIN calls : i # j => calls[i].fn # calls[j].fn

\* The BM25 search of hybrid_search_reranked failed after two calls went
\* well.
C7_Witness ==
    /\ request.mode = "hybrid_reranked"
    /\ outcome = "error"
    /\ raised.fn = "bm25_search"
    /\ error = "TimeoutError"

\* ---------------------------------------------------------------------- C8
\* C8: a request with an empty query or a non-positive top_k is rejected
\* before any collaborator call.
C8_InvalidRequestRejected ==
    (request.mode # "none" /\ (request.query = "" \/ request.top_k <= 0)) =>
        /\ outcome = "rejected"
        /\ pc = "done"
        /\ calls = <<>>
        /\ pending.fn = "none"

\* A request with top_k = 0 and a non-empty query was rejected.
C8_Witness ==
    /\ outcome = "rejected"
    /\ request.query # ""
    /\ request.top_k = 0

\* ---------------------------------------------------------------------- C9
\* C9: with collaborators that return at most what they were asked for, a
\* response has at most top_k items.
C9_AtMostTopK ==
    Responded => Len(response.results) <= request.top_k

\* hybrid_search_reranked answered top_k items out of more candidates.
C9_Witness ==
    /\ Responded
    /\ request.mode = "hybrid_reranked"
    /\ CallsTo("rerank_results") = 1
    /\ Len(calls[Len(calls)].candidates) > request.top_k
    /\ Len(response.results) = request.top_k

====
